---- MODULE Spec2Model ----
(***************************************************************************)
(* Dubify: the semantic search pipeline.                                   *)
(*                                                                         *)
(*   - the Qdrant service (lib/services/qdrant): bulkAddLocations and      *)
(*     searchLocations, with the embedding call and the index query as     *)
(*     the two suspension points of a search;                              *)
(*   - the POST /api/search route with its in-memory keyword search;       *)
(*   - the suggestion generators of the service and of the route;          *)
(*   - the lazily constructed provider clients (getClient, getGenAI) and   *)
(*     generateSafetyAssessment of the Gemini service.                     *)
(*                                                                         *)
(* Text is a sequence of one-character strings.  An optional value (a      *)
(* field that may be undefined) is the empty set or a singleton set.       *)
(* A similarity score is the rational num/den.                             *)
(***************************************************************************)
EXTENDS Integers, Sequences, FiniteSets, TLC

VARIABLES
    points,      \* the Qdrant collection: point id -> payload
    pc,          \* position of the searchLocations call
    request,     \* the SearchRequest of the searchLocations call
    indexQuery,  \* the arguments of qdrant.search, once issued
    hits,        \* what qdrant.search returned
    failed,      \* which external call of the search failed
    response,    \* the SearchResponse searchLocations returned
    httpReq,     \* the POST request a route handled last
    httpResp,    \* the response of the route
    scored,      \* whether the route ran performInMemorySearch
    upserts,     \* number of qdrant.upsert calls issued
    calls,       \* the calls the search or the route handler issued, in order
    client,      \* the module-level QdrantClient of the Qdrant service
    genAI,       \* the module-level GoogleGenerativeAI of the Gemini service
    env,         \* process.env: which credentials are set
    assessment,  \* what generateSafetyAssessment returned
    used,        \* requests each rate limiter has counted in its window
    llmReply,    \* what model.generateContent answered last
    bulk,        \* the last bulkAddLocations call: its input and how it ended
    named,       \* the points addLocation stored, by their string id
    lookup,      \* the last getLocationById call: its id and what it returned
    mounted,         \* whether DashboardContent (and its MobileSidebar) is mounted
    mobileMenuOpen,  \* the mobileMenuOpen state of DashboardContent
    pathname,        \* what usePathname returns
    rendered,        \* isOpen and pathname of the committed render
    effectPathname,  \* the dependency [pathname] the route effect last ran with
    effectIsOpen,    \* the dependency [isOpen] the scroll effect last ran with
    overflow,        \* document.body.style.overflow
    closeTrigger,    \* what invoked onClose since the sidebar was last opened
    messages,        \* the messages state of ChatPage
    isLoading,       \* the isLoading state of ChatPage
    handleSendSees,  \* the isLoading that handleSend of the committed render reads
    fetches,         \* the chat requests in flight
    sends,           \* number of chat requests sent
    pageQuery,       \* the query state of SearchPage
    pageResults,     \* the results state of SearchPage
    pageIsLoading,   \* the isLoading state of SearchPage
    searchTime,      \* the searchTime state of SearchPage
    hasSearched,     \* the hasSearched state of SearchPage
    pageShows,       \* query and isLoading of the committed render of SearchPage
    searches,        \* the search requests in flight
    issued,          \* number of search requests issued
    answered         \* how the request issued last was answered, once it was

storeVars == <<bulk, named, lookup>>

backendVars == <<points, pc, request, indexQuery, hits, failed, response,
                 httpReq, httpResp, scored, upserts, calls, client, genAI,
                 env, assessment, used, llmReply, storeVars>>

sidebarVars == <<mounted, mobileMenuOpen, pathname, rendered, effectPathname,
                 effectIsOpen, overflow, closeTrigger>>

chatVars == <<messages, isLoading, handleSendSees, fetches, sends>>

searchPageVars == <<pageQuery, pageResults, pageIsLoading, searchTime,
                    hasSearched, pageShows, searches, issued, answered>>

pageVars == <<sidebarVars, chatVars, searchPageVars>>

vars == <<backendVars, storeVars, pageVars>>

----------------------------------------------------------------------------
(* Bounds *)

MaxBulk == 2           \* locations per bulkAddLocations call
MaxQueryLen == 2       \* characters of a query
MaxFilterFields == 2   \* filter fields present in one request
ScoreScale == 1        \* the index reports scores k/ScoreScale
MaxLimit == 1          \* largest explicit positive limit of a request
MaxUpserts == 1        \* upsert calls in one behaviour
MaxWords == 2          \* words of a query that names themes
MaxRequests == 1       \* requests a rate limiter allows in one window
MaxSends == 3          \* chat requests sent in one behaviour
MaxSearches == 2       \* search requests issued by SearchPage in one behaviour

----------------------------------------------------------------------------
(* Optional values *)

None == {}
Some(v) == {v}
The(o) == CHOOSE v \in o : TRUE

----------------------------------------------------------------------------
(* Strings *)

Space == " "

LowerCaseOf ==
    ("A" :> "a") @@ ("B" :> "b") @@ ("C" :> "c") @@ ("D" :> "d") @@
    ("E" :> "e") @@ ("F" :> "f") @@ ("G" :> "g") @@ ("H" :> "h") @@
    ("I" :> "i") @@ ("J" :> "j") @@ ("K" :> "k") @@ ("L" :> "l") @@
    ("M" :> "m") @@ ("N" :> "n") @@ ("O" :> "o") @@ ("P" :> "p") @@
    ("Q" :> "q") @@ ("R" :> "r") @@ ("S" :> "s") @@ ("T" :> "t") @@
    ("U" :> "u") @@ ("V" :> "v") @@ ("W" :> "w") @@ ("X" :> "x") @@
    ("Y" :> "y") @@ ("Z" :> "z")

ToLowerChar(c) == IF c \in DOMAIN LowerCaseOf THEN LowerCaseOf[c] ELSE c

ToLowerCase(s) == [i \in 1..Len(s) |-> ToLowerChar(s[i])]

\* String.prototype.split(' '): every single space separates, so leading,
\* trailing and repeated spaces produce empty words.
RECURSIVE Split(_)
Split(s) ==
    IF \A i \in 1..Len(s) : s[i] # Space
    THEN <<s>>
    ELSE LET i == CHOOSE k \in 1..Len(s) :
                      s[k] = Space /\ \A j \in 1..(k - 1) : s[j] # Space
         IN <<SubSeq(s, 1, i - 1)>> \o Split(SubSeq(s, i + 1, Len(s)))

\* String.prototype.includes: the empty word occurs in every text.
Includes(text, word) ==
    \E i \in 0..(Len(text) - Len(word)) :
        SubSeq(text, i + 1, i + Len(word)) = word

\* Array.prototype.join(' ')
RECURSIVE Join(_)
Join(ss) ==
    IF ss = <<>> THEN <<>>
    ELSE IF Len(ss) = 1 THEN ss[1]
    ELSE ss[1] \o <<Space>> \o Join(Tail(ss))

Digit(d) == <<"0", "1", "2", "3", "4", "5", "6", "7", "8", "9">>[d + 1]

\* Number.prototype.toString of a non-negative integer
RECURSIVE NumberToString(_)
NumberToString(n) ==
    IF n < 10 THEN Digit(n)
    ELSE NumberToString(n \div 10) \o Digit(n % 10)

----------------------------------------------------------------------------
(* The location data set *)

Categories == { <<"h">>, <<"m">> }
PriceRanges == { "$", "$$" }

\* the values requests filter on
FilterCategories == { <<"m">> }
FilterPriceRanges == { "$" }

AllLocations ==
    << [id |-> "burj-khalifa", name |-> <<"a">>, description |-> <<"b">>,
        tags |-> << <<"a">> >>, category |-> <<"h">>, rating |-> 5,
        priceRange |-> "$$", latitude |-> Some(25), longitude |-> Some(55),
        halalCertified |-> Some(TRUE), familyFriendly |-> Some(FALSE)],
       [id |-> "2", name |-> <<"B">>, description |-> <<"c">>,
        tags |-> <<>>, category |-> <<"m">>, rating |-> 4,
        priceRange |-> "$", latitude |-> Some(0), longitude |-> Some(55),
        halalCertified |-> Some(FALSE), familyFriendly |-> Some(TRUE)],
       [id |-> "gold-souk", name |-> <<"c">>, description |-> <<"c">>,
        tags |-> << <<"c">>, <<"d">> >>, category |-> <<"m">>, rating |-> 3,
        priceRange |-> "$", latitude |-> Some(25), longitude |-> Some(0),
        halalCertified |-> None, familyFriendly |-> None] >>

getAllLocations == AllLocations

LocationSet == { AllLocations[i] : i \in 1..Len(AllLocations) }

----------------------------------------------------------------------------
(* Requests *)

DefaultLimit == 10

Alphabet == { "a", "B", Space }

Queries == UNION { [1..n -> Alphabet] : n \in 1..MaxQueryLen }

\* searchLocations hands the query to the embedding provider only, opaque
\* to this model: one query stands for all.
ServiceQueries == { <<"a">> }

FilterKeys == { "category", "priceRange", "rating", "halalCertified",
                "familyFriendly" }

RatingThresholds == { 0, 4 }

AllFilters ==
    [ category : {None} \cup { Some(c) : c \in FilterCategories },
      priceRange : {None} \cup { Some(p) : p \in FilterPriceRanges },
      rating : {None} \cup { Some(r) : r \in RatingThresholds },
      halalCertified : {None} \cup { Some(b) : b \in BOOLEAN },
      familyFriendly : {None} \cup { Some(b) : b \in BOOLEAN } ]

Filters ==
    { f \in AllFilters :
        Cardinality({ k \in FilterKeys : f[k] # None }) <= MaxFilterFields }

FilterOpts == {None} \cup { Some(f) : f \in Filters }

LimitOpts == {None} \cup { Some(n) : n \in (-1)..MaxLimit }

SearchRequests ==
    [ query : ServiceQueries, filters : FilterOpts, limit : LimitOpts,
      userLocation : {None} ]

\* request.filters?.field
FilterField(filters, key) ==
    IF filters = None THEN None ELSE The(filters)[key]

\* JavaScript truthiness of an optional string and of an optional number
TruthyText(o) == o # None /\ The(o) # <<>>
TruthyNumber(o) == o # None /\ The(o) # 0

----------------------------------------------------------------------------
(* Search suggestions *)

Romantic == <<"r", "o", "m", "a", "n", "t", "i", "c">>
Sunset == <<"s", "u", "n", "s", "e", "t">>
Family == <<"f", "a", "m", "i", "l", "y">>
Kids == <<"k", "i", "d", "s">>
Luxury == <<"l", "u", "x", "u", "r", "y">>
Expensive == <<"e", "x", "p", "e", "n", "s", "i", "v", "e">>
Cheap == <<"c", "h", "e", "a", "p">>
Budget == <<"b", "u", "d", "g", "e", "t">>
Traditional == <<"t", "r", "a", "d", "i", "t", "i", "o", "n", "a", "l">>

\* the family theme tested before the romantic theme
generateSearchSuggestionsFamilyFirst(query) ==
    LET lowercaseQuery == ToLowerCase(query)
    IN  IF Includes(lowercaseQuery, Family) \/ Includes(lowercaseQuery, Kids)
        THEN <<"family-friendly attractions", "water parks Dubai",
               "kid-friendly restaurants">>
        ELSE IF Includes(lowercaseQuery, Romantic)
                  \/ Includes(lowercaseQuery, Sunset)
        THEN <<"romantic dinner with view", "sunset beach spots",
               "couples activities Dubai">>
        ELSE <<"traditional souks", "modern attractions", "beach activities">>

\* generateSearchSuggestions of the Qdrant service
generateSearchSuggestions(query) ==
    LET lowercaseQuery == ToLowerCase(query)
    IN  IF Includes(lowercaseQuery, Romantic)
             \/ Includes(lowercaseQuery, Sunset)
        THEN <<"romantic dinner with view", "sunset beach spots",
               "couples activities Dubai">>
        ELSE IF Includes(lowercaseQuery, Family)
                  \/ Includes(lowercaseQuery, Kids)
        THEN <<"family-friendly attractions", "water parks Dubai",
               "kid-friendly restaurants">>
        ELSE IF Includes(lowercaseQuery, Luxury)
                  \/ Includes(lowercaseQuery, Expensive)
        THEN <<"luxury shopping malls", "fine dining Dubai",
               "5-star experiences">>
        ELSE IF Includes(lowercaseQuery, Cheap)
                  \/ Includes(lowercaseQuery, Budget)
        THEN <<"budget-friendly activities", "affordable restaurants",
               "free attractions Dubai">>
        ELSE <<"traditional souks", "modern attractions", "beach activities">>

\* generateSuggestions of the search route
generateSuggestions(query) ==
    LET q == ToLowerCase(query)
    IN  IF Includes(q, Romantic)
        THEN <<"romantic dinner spots", "sunset viewing points",
               "couples activities">>
        ELSE IF Includes(q, Family)
        THEN <<"family restaurants", "kid-friendly attractions",
               "water parks">>
        ELSE IF Includes(q, Luxury)
        THEN <<"luxury hotels", "fine dining", "high-end shopping">>
        ELSE IF Includes(q, Traditional)
        THEN <<"traditional souks", "cultural museums", "heritage sites">>
        ELSE <<"top attractions", "best restaurants", "hidden gems">>

----------------------------------------------------------------------------
(* searchLocations: the filter it builds and the arguments of the query *)

MatchCondition(key, value) == [key |-> key, match |-> Some(value), gte |-> None]
RangeCondition(key, value) == [key |-> key, match |-> None, gte |-> Some(value)]

CategoryCondition(filters) ==
    IF TruthyText(FilterField(filters, "category"))
    THEN <<MatchCondition("category", The(FilterField(filters, "category")))>>
    ELSE <<>>

\* the boolean filter tested for truthiness instead of !== undefined
HalalConditionTruthy(filters) ==
    IF FilterField(filters, "halalCertified") # None
         /\ The(FilterField(filters, "halalCertified"))
    THEN <<MatchCondition("halalCertified",
                          The(FilterField(filters, "halalCertified")))>>
    ELSE <<>>

HalalCondition(filters) ==
    IF FilterField(filters, "halalCertified") # None
    THEN <<MatchCondition("halalCertified",
                          The(FilterField(filters, "halalCertified")))>>
    ELSE <<>>

FamilyCondition(filters) ==
    IF FilterField(filters, "familyFriendly") # None
    THEN <<MatchCondition("familyFriendly",
                          The(FilterField(filters, "familyFriendly")))>>
    ELSE <<>>

RatingCondition(filters) ==
    IF TruthyNumber(FilterField(filters, "rating"))
    THEN <<RangeCondition("rating", The(FilterField(filters, "rating")))>>
    ELSE <<>>

\* filter.must, in the order the conditions are pushed
BuildMust(filters) ==
    CategoryCondition(filters) \o HalalCondition(filters)
        \o FamilyCondition(filters) \o RatingCondition(filters)

\* filter: filter.must.length > 0 ? filter : undefined
FilterArg(filters) ==
    IF Len(BuildMust(filters)) > 0
    THEN Some([must |-> BuildMust(filters)])
    ELSE None

\* limit: request.limit || 10
LimitArg(limit) ==
    IF TruthyNumber(limit) THEN The(limit) ELSE DefaultLimit

----------------------------------------------------------------------------
(* The vector index (Qdrant), by its contract *)

PayloadValue(payload, key) ==
    CASE key = "category" -> Some(payload.category)
      [] key = "priceRange" -> Some(payload.priceRange)
      [] key = "rating" -> Some(payload.rating)
      [] key = "halalCertified" -> payload.halalCertified
      [] key = "familyFriendly" -> payload.familyFriendly

\* A match condition holds when the stored value is present and equal; a
\* range condition when it is present and at least gte.
Satisfies(payload, cond) ==
    IF cond.gte # None
    THEN /\ PayloadValue(payload, cond.key) # None
         /\ The(PayloadValue(payload, cond.key)) >= The(cond.gte)
    ELSE PayloadValue(payload, cond.key) = cond.match

SatisfiesFilter(payload, filter) ==
    filter = None \/
        \A i \in 1..Len(The(filter).must) :
            Satisfies(payload, The(filter).must[i])

Min(a, b) == IF a < b THEN a ELSE b

Score(num, den) == [num |-> num, den |-> den]

\* num1/den1 <= num2/den2, for positive denominators
ScoreLeq(s, t) == s.num * t.den <= t.num * s.den

\* Every answer the index may give to a query: at most `limit` distinct
\* stored points that satisfy the filter, each with a score in [0,1], in
\* non-increasing score order.  Which of the matching points come back, and
\* the order among equal scores, are the index's choice.
IndexAnswers(pts, query) ==
    LET matching == { id \in DOMAIN pts :
                        SatisfiesFilter(pts[id], query.filter) }
        lengths == 0..Min(query.limit, Cardinality(matching))
    IN  UNION { { [i \in 1..n |->
                     [id |-> ids[i], score |-> Score(ks[i], ScoreScale),
                      payload |-> pts[ids[i]]]] :
                  ids \in { f \in [1..n -> matching] :
                              \A i, j \in 1..n : i # j => f[i] # f[j] },
                  ks \in { g \in [1..n -> 0..ScoreScale] :
                              \A i \in 1..(n - 1) : g[i] >= g[i + 1] } } :
                n \in lengths }

\* upsert: each point replaces the stored point of the same id
Upsert(pts, newPoints) ==
    LET newIds == { newPoints[i].id : i \in 1..Len(newPoints) }
    IN  [ id \in DOMAIN pts \cup newIds |->
            IF id \in newIds
            THEN (CHOOSE p \in { newPoints[i] : i \in 1..Len(newPoints) } :
                      p.id = id).payload
            ELSE pts[id] ]

----------------------------------------------------------------------------
(* The provider clients *)

\* A client is the n-th instance its module constructed.  The constructors
\* take whatever the environment holds and do not fail.

\* if (!client) { client = new QdrantClient({ url, apiKey }); } return client;
getClient(c) == IF c = None THEN Some(1) ELSE c

\* if (!genAI) { genAI = new GoogleGenerativeAI(apiKey); } return genAI;
getGenAI(g) == IF g = None THEN Some(1) ELSE g

\* The providers turn away a call made without its credential: Gemini is
\* given 'demo_key', Qdrant no key at all.
GeminiAvailable == env.GEMINI_API_KEY
QdrantAvailable == env.QDRANT_API_KEY

----------------------------------------------------------------------------
(* generateSafetyAssessment *)

\* what model.generateContent does: it throws, or replies with text that
\* holds no {...}, text whose {...} is not JSON, or the JSON of an assessment
Assessments ==
    [ risk_score : {10, 80},
      risk_level : {"low", "medium", "high", "critical"},
      message : {"m"}, recommendations : { <<"r">> } ]

Replies ==
    [ kind : {"throws", "text", "braces"}, assessment : {None} ]
        \cup [ kind : {"json"}, assessment : { Some(a) : a \in Assessments } ]

\* the default safe response of the catch block
FallbackAssessment ==
    [riskScore |-> 20, riskLevel |-> "low",
     message |-> "Dubai is generally very safe for tourists. Stay aware of your surroundings.",
     recommendations |-> <<"Stay hydrated in hot weather",
                           "Keep valuables secure",
                           "Use licensed taxis or ride-sharing apps",
                           "Emergency number in UAE: 999">>]

AssessmentOf(reply) ==
    IF reply.kind = "json"
    THEN [riskScore |-> The(reply.assessment).risk_score,
          riskLevel |-> The(reply.assessment).risk_level,
          message |-> The(reply.assessment).message,
          recommendations |-> The(reply.assessment).recommendations]
    ELSE FallbackAssessment

generateSafetyAssessment ==
    /\ assessment = None
    /\ pc = "idle"
    /\ httpResp = None
    /\ genAI' = getGenAI(genAI)
    /\ \E reply \in (IF GeminiAvailable THEN Replies
                      ELSE { r \in Replies : r.kind = "throws" }) :
          /\ llmReply' = Some(reply)
          /\ assessment' = Some(AssessmentOf(reply))
    /\ UNCHANGED <<points, pc, request, indexQuery, hits, failed, response,
                   httpReq, httpResp, scored, upserts, calls, client, env,
                   used, storeVars, pageVars>>

----------------------------------------------------------------------------
(* bulkAddLocations *)

\* payload: { ...location, originalId: location.id }
BulkPayload(location) ==
    [id |-> location.id, name |-> location.name,
     description |-> location.description, tags |-> location.tags,
     category |-> location.category, rating |-> location.rating,
     priceRange |-> location.priceRange, latitude |-> location.latitude,
     longitude |-> location.longitude,
     halalCertified |-> location.halalCertified,
     familyFriendly |-> location.familyFriendly,
     originalId |-> location.id]

\* id: index + 1, for the zero-based index of locations.map
BulkPoints(locations) ==
    [i \in 1..Len(locations) |->
        [id |-> (i - 1) + 1, payload |-> BulkPayload(locations[i])]]

BulkInputsOf(locations) ==
    UNION { { f \in [1..n -> locations] :
                \A i, j \in 1..n : i # j => f[i] # f[j] } : n \in 1..MaxBulk }

BulkInputs == BulkInputsOf(LocationSet)

\* Every embedding arrives and the one upsert is accepted.
bulkAddLocationsOf(inputs) ==
    /\ upserts < MaxUpserts
    /\ httpResp = None
    /\ GeminiAvailable
    /\ QdrantAvailable
    /\ \E locations \in inputs :
          /\ points' = Upsert(points, BulkPoints(locations))
          /\ bulk' = Some([locations |-> locations, outcome |-> "returned"])
    /\ upserts' = upserts + 1
    /\ client' = getClient(client)
    /\ genAI' = getGenAI(genAI)
    /\ UNCHANGED <<pc, request, indexQuery, hits, failed, response,
                   httpReq, httpResp, scored, calls, env, assessment,
                   used, llmReply, named, lookup, pageVars>>

bulkAddLocations == bulkAddLocationsOf(BulkInputs)

\* a call that upserts the points whose embeddings arrived before it
\* rethrows
bulkAddLocationsFailsPartly(inputs) ==
    /\ pc = "idle"
    /\ httpResp = None
    /\ \E locations \in inputs :
          /\ bulk' = Some([locations |-> locations, outcome |-> "thrown"])
          /\ \E k \in 0..(Len(locations) - 1) :
                points' = Upsert(points, SubSeq(BulkPoints(locations), 1, k))
    /\ client' = getClient(client)
    /\ genAI' = getGenAI(genAI)
    /\ UNCHANGED <<pc, request, indexQuery, hits, failed, response,
                   httpReq, httpResp, scored, upserts, calls, env, assessment,
                   used, llmReply, named, lookup, pageVars>>

\* An embedding fails, or the upsert does: the call rethrows and nothing is
\* stored.
bulkAddLocationsFailsOf(inputs) ==
    /\ pc = "idle"
    /\ httpResp = None
    /\ \E locations \in inputs :
          bulk' = Some([locations |-> locations, outcome |-> "thrown"])
    /\ client' = getClient(client)
    /\ genAI' = getGenAI(genAI)
    /\ UNCHANGED <<points, pc, request, indexQuery, hits, failed, response,
                   httpReq, httpResp, scored, upserts, calls, env, assessment,
                   used, llmReply, named, lookup, pageVars>>

\* A call that throws stores nothing: one input stands for all.
FailedBulkInputs == { <<AllLocations[1]>> }

bulkAddLocationsFails == bulkAddLocationsFailsOf(FailedBulkInputs)

----------------------------------------------------------------------------
(* addLocation, getLocationById *)

\* payload: { ...location }
AddPayload(location) == location

\* upsert of one point under the string id location.id
UpsertNamed(pts, location) ==
    [ id \in DOMAIN pts \cup {location.id} |->
        IF id = location.id THEN AddPayload(location) ELSE pts[id] ]

addLocation ==
    /\ pc = "idle"
    /\ httpResp = None
    /\ GeminiAvailable
    /\ QdrantAvailable
    /\ \E location \in LocationSet : named' = UpsertNamed(named, location)
    /\ client' = getClient(client)
    /\ genAI' = getGenAI(genAI)
    /\ UNCHANGED <<points, pc, request, indexQuery, hits, failed, response,
                   httpReq, httpResp, scored, upserts, calls, env, assessment,
                   used, llmReply, bulk, lookup, pageVars>>

\* The embedding fails, or the upsert does: the call rethrows.
addLocationFails ==
    /\ pc = "idle"
    /\ httpResp = None
    /\ client' = getClient(client)
    /\ genAI' = getGenAI(genAI)
    /\ UNCHANGED <<points, pc, request, indexQuery, hits, failed, response,
                   httpReq, httpResp, scored, upserts, calls, env, assessment,
                   used, llmReply, storeVars, pageVars>>

LocationIds == { loc.id : loc \in LocationSet } \cup { "never-stored" }

\* qdrant.retrieve(COLLECTION_NAME, { ids: [id] }): the points whose id is
\* the string id.  The points of bulkAddLocations have integer ids, which
\* no string equals.
Retrieve(id) ==
    IF id \in DOMAIN named THEN << [id |-> id, payload |-> named[id]] >>
    ELSE <<>>

\* if (result.length === 0) return null; return result[0].payload
LocationOf(result) ==
    IF Len(result) = 0 THEN None ELSE Some(result[1].payload)

getLocationById ==
    /\ pc = "idle"
    /\ httpResp = None
    /\ \E id \in LocationIds :
          \/ /\ QdrantAvailable
             /\ lookup' = Some([id |-> id, location |-> LocationOf(Retrieve(id))])
          \* catch: return null
          \/ lookup' = Some([id |-> id, location |-> None])
    /\ client' = getClient(client)
    /\ UNCHANGED <<points, pc, request, indexQuery, hits, failed, response,
                   httpReq, httpResp, scored, upserts, calls, genAI, env,
                   assessment, used, llmReply, bulk, named, pageVars>>

----------------------------------------------------------------------------
(* calculateDistance *)

\* Coordinates are whole degrees on the quarter-turn grid.  There every term
\* of the formula is rational: an angle is a whole number of quarter turns
\* (units of pi/2), `a' is a whole number of halves, and a distance is a
\* whole number of tenths of a kilometre.
Latitudes == { -90, 0, 90 }
Longitudes == { -90, 0, 90, 180 }

\* const R = 6371
R == 6371

\* (degrees * Math.PI) / 180, in quarter turns
toRad(degrees) == degrees \div 90

QuarterTurn(q) == ((q % 4) + 4) % 4

\* Math.sin(x / 2) * Math.sin(x / 2), in halves, for x in quarter turns
SinHalfSquared(x) ==
    CASE QuarterTurn(x) = 0 -> 0
      [] QuarterTurn(x) = 1 -> 1
      [] QuarterTurn(x) = 2 -> 2
      [] QuarterTurn(x) = 3 -> 1

\* Math.cos(x), for x in quarter turns
Cos(x) ==
    CASE QuarterTurn(x) = 0 -> 1
      [] QuarterTurn(x) = 1 -> 0
      [] QuarterTurn(x) = 2 -> -1
      [] QuarterTurn(x) = 3 -> 0

\* 2 * Math.atan2(Math.sqrt(a), Math.sqrt(1 - a)), in quarter turns, for a
\* in halves: atan2(0, 1) = 0, atan2(v, v) = pi/4, atan2(1, 0) = pi/2
TwiceAtan2(a) ==
    CASE a = 0 -> 0
      [] a = 1 -> 1
      [] a = 2 -> 2

\* Math.round(n * pi/2), with pi = 355/113
RoundQuarterTurns(n) == (2 * n * 355 + 226) \div 452

\* The result is Math.round(distance * 10) / 10, here in tenths.
calculateDistance(lat1, lon1, lat2, lon2) ==
    LET dLat == toRad(lat2 - lat1)
        dLon == toRad(lon2 - lon1)
        a == SinHalfSquared(dLat)
               + Cos(toRad(lat1)) * Cos(toRad(lat2)) * SinHalfSquared(dLon)
        c == TwiceAtan2(a)
    IN  RoundQuarterTurns(R * c * 10)

----------------------------------------------------------------------------
(* searchLocations *)

UserLocations == [ lat : Latitudes, lng : Longitudes ]

\* if (request.userLocation && payload.latitude && payload.longitude)
Distance(req, payload) ==
    IF req.userLocation # None /\ TruthyNumber(payload.latitude)
         /\ TruthyNumber(payload.longitude)
    THEN Some(calculateDistance(The(req.userLocation).lat,
                                The(req.userLocation).lng,
                                The(payload.latitude),
                                The(payload.longitude)))
    ELSE None

\* One SearchResult per hit.
MapHit(hit, req) ==
    [id |-> NumberToString(hit.id),
     name |-> hit.payload.name,
     description |-> hit.payload.description,
     category |-> hit.payload.category,
     tags |-> hit.payload.tags,
     rating |-> hit.payload.rating,
     priceRange |-> hit.payload.priceRange,
     similarityScore |-> hit.score,
     distance |-> Distance(req, hit.payload),
     latitude |-> hit.payload.latitude,
     longitude |-> hit.payload.longitude,
     halalCertified |-> hit.payload.halalCertified,
     familyFriendly |-> hit.payload.familyFriendly]

\* searchResults.map(...)
MapResults(searchResults, req) ==
    [i \in 1..Len(searchResults) |-> MapHit(searchResults[i], req)]

\* { results, total: results.length, queryTimeMs, suggestions }; queryTimeMs,
\* a difference of two clock readings, is left out
SearchResponse(results, suggestions) ==
    [results |-> results, total |-> Len(results), suggestions |-> suggestions]

\* a catch block that answers with an empty result set instead of rethrowing
SearchCatchFallback ==
    [pc |-> "returned", response |-> Some(SearchResponse(<<>>, <<>>))]

\* catch (error) { console.error(...); throw error; }
SearchCatch == [pc |-> "threw", response |-> None]

\* The call starts and awaits geminiService.generateEmbedding.
searchLocationsOf(requests) ==
    /\ pc = "idle"
    /\ httpResp = None
    /\ pc' = "embedding"
    /\ \E req \in requests : request' = Some(req)
    /\ calls' = <<"generateEmbedding">>
    /\ client' = getClient(client)
    /\ genAI' = getGenAI(genAI)
    /\ UNCHANGED <<points, indexQuery, hits, failed, response,
                   httpReq, httpResp, scored, upserts, env, assessment,
                   used, llmReply, storeVars, pageVars>>

searchLocations == searchLocationsOf(SearchRequests)

\* The embedding arrives: the filter is built and qdrant.search is awaited.
EmbeddingReturns ==
    /\ pc = "embedding"
    /\ GeminiAvailable
    /\ pc' = "querying"
    /\ indexQuery' = Some([limit |-> LimitArg(The(request).limit),
                           filter |-> FilterArg(The(request).filters)])
    /\ calls' = Append(calls, "qdrant.search")
    /\ UNCHANGED <<points, request, hits, failed, response,
                   httpReq, httpResp, scored, upserts, client, genAI, env, assessment,
                   used, llmReply, storeVars, pageVars>>

\* a search that goes on to the index query after the embedding has failed
EmbeddingFailsContinues ==
    /\ pc = "embedding"
    /\ failed' = "embedding"
    /\ pc' = "querying"
    /\ indexQuery' = Some([limit |-> LimitArg(The(request).limit),
                           filter |-> FilterArg(The(request).filters)])
    /\ calls' = Append(calls, "qdrant.search")
    /\ UNCHANGED <<points, request, hits, response, httpReq, httpResp,
                   scored, upserts, client, genAI, env, assessment,
                   used, llmReply, storeVars, pageVars>>

\* generateEmbedding throws 'Failed to generate embedding'.
EmbeddingFails ==
    /\ pc = "embedding"
    /\ failed' = "embedding"
    /\ pc' = SearchCatch.pc
    /\ response' = SearchCatch.response
    /\ UNCHANGED <<points, request, indexQuery, hits, httpReq, httpResp,
                   scored, upserts, calls, client, genAI, env, assessment,
                   used, llmReply, storeVars, pageVars>>

\* a search that removes from the collection the points it returns
IndexReturnsConsuming ==
    /\ pc = "querying"
    /\ QdrantAvailable
    /\ \E answer \in IndexAnswers(points, The(indexQuery)) :
          /\ hits' = Some(answer)
          /\ response' =
                Some(SearchResponse(MapResults(answer, The(request)),
                         generateSearchSuggestions(The(request).query)))
          /\ points' = [id \in DOMAIN points
                                \ { answer[i].id : i \in 1..Len(answer) }
                          |-> points[id]]
    /\ pc' = "returned"
    /\ UNCHANGED <<request, indexQuery, failed, httpReq, httpResp,
                   scored, upserts, calls, client, genAI, env, assessment,
                   used, llmReply, storeVars, pageVars>>

\* qdrant.search answers: the hits are mapped and the response returned.
IndexReturns ==
    /\ pc = "querying"
    /\ QdrantAvailable
    /\ LET suggestions == generateSearchSuggestions(The(request).query)
       IN  \E answer \in IndexAnswers(points, The(indexQuery)) :
               /\ hits' = Some(answer)
               /\ response' =
                     Some(SearchResponse(MapResults(answer, The(request)),
                                         suggestions))
    /\ pc' = "returned"
    /\ UNCHANGED <<points, request, indexQuery, failed, httpReq, httpResp,
                   scored, upserts, calls, client, genAI, env, assessment,
                   used, llmReply, storeVars, pageVars>>

\* qdrant.search throws (timeout, network, dimension mismatch, bad limit).
IndexFails ==
    /\ pc = "querying"
    /\ failed' = "index"
    /\ pc' = SearchCatch.pc
    /\ response' = SearchCatch.response
    /\ UNCHANGED <<points, request, indexQuery, hits, httpReq, httpResp,
                   scored, upserts, calls, client, genAI, env, assessment,
                   used, llmReply, storeVars, pageVars>>

----------------------------------------------------------------------------
(* performInMemorySearch (POST /api/search) *)

MaxResults == 10

SearchText(location) ==
    ToLowerCase(location.name \o <<Space>> \o location.description
                \o <<Space>> \o Join(location.tags)
                \o <<Space>> \o location.category)

\* matchCount / queryWords.length
SimilarityScore(location, query) ==
    LET queryWords == Split(ToLowerCase(query))
        matchCount == Cardinality({ i \in 1..Len(queryWords) :
                          Includes(SearchText(location), queryWords[i]) })
    IN  Score(matchCount, Len(queryWords))

ScoredResult(location, query) ==
    [id |-> location.id,
     name |-> location.name,
     description |-> location.description,
     category |-> location.category,
     tags |-> location.tags,
     rating |-> location.rating,
     priceRange |-> location.priceRange,
     similarityScore |-> SimilarityScore(location, query),
     latitude |-> location.latitude,
     longitude |-> location.longitude,
     halalCertified |-> location.halalCertified,
     familyFriendly |-> location.familyFriendly]

ExcludedByCategory(result, filters) ==
    /\ TruthyText(FilterField(filters, "category"))
    /\ result.category # The(FilterField(filters, "category"))

ExcludedByHalal(result, filters) ==
    /\ FilterField(filters, "halalCertified") # None
    /\ result.halalCertified # FilterField(filters, "halalCertified")

ExcludedByFamily(result, filters) ==
    /\ FilterField(filters, "familyFriendly") # None
    /\ result.familyFriendly # FilterField(filters, "familyFriendly")

\* the rating bound made exclusive
ExcludedByRatingStrict(result, filters) ==
    /\ TruthyNumber(FilterField(filters, "rating"))
    /\ result.rating <= The(FilterField(filters, "rating"))

ExcludedByRating(result, filters) ==
    /\ TruthyNumber(FilterField(filters, "rating"))
    /\ result.rating < The(FilterField(filters, "rating"))

\* the callback of .filter(...)
KeepResult(result, filters) ==
    /\ result.similarityScore.num # 0
    /\ ~ExcludedByCategory(result, filters)
    /\ ~ExcludedByHalal(result, filters)
    /\ ~ExcludedByFamily(result, filters)
    /\ ~ExcludedByRating(result, filters)

RECURSIVE FilterResults(_, _)
FilterResults(results, filters) ==
    IF results = <<>> THEN <<>>
    ELSE (IF KeepResult(Head(results), filters)
          THEN <<Head(results)>> ELSE <<>>)
         \o FilterResults(Tail(results), filters)

\* the comparator with its operands swapped: a.similarityScore - b.similarityScore
CompareResultsAscending(a, b) ==
    a.similarityScore.num * b.similarityScore.den
        - b.similarityScore.num * a.similarityScore.den

\* (a, b) => b.similarityScore - a.similarityScore, as the numerator of the
\* difference of the two fractions: negative when a sorts before b
CompareResults(a, b) ==
    b.similarityScore.num * a.similarityScore.den
        - a.similarityScore.num * b.similarityScore.den

\* Array.prototype.sort is stable: x goes after every element that does not
\* sort after it.
InsertResult(sorted, x) ==
    LET after == { i \in 1..Len(sorted) : CompareResults(sorted[i], x) > 0 }
        pos == IF after = {} THEN Len(sorted) + 1
               ELSE CHOOSE i \in after : \A j \in after : i <= j
    IN  SubSeq(sorted, 1, pos - 1) \o <<x>> \o SubSeq(sorted, pos, Len(sorted))

RECURSIVE SortResults(_)
SortResults(results) ==
    IF results = <<>> THEN <<>>
    ELSE InsertResult(SortResults(SubSeq(results, 1, Len(results) - 1)),
                      results[Len(results)])

\* .slice(0, 10)
SliceResults(results) == SubSeq(results, 1, Min(MaxResults, Len(results)))

performInMemorySearch(query, filters) ==
    LET locations == getAllLocations
        mapped == [i \in 1..Len(locations) |-> ScoredResult(locations[i], query)]
    IN  SearchResponse(
            SliceResults(SortResults(FilterResults(mapped, filters))),
            generateSuggestions(query))

----------------------------------------------------------------------------
(* POST /api/search *)

UndefinedValue == [kind |-> "undefined", num |-> 0, str |-> <<>>]
NumberValue(n) == [kind |-> "number", num |-> n, str |-> <<>>]
StringValue(s) == [kind |-> "string", num |-> 0, str |-> s]

QueryValues ==
    { UndefinedValue, NumberValue(7), StringValue(<<>>) }
        \cup { StringValue(q) : q \in Queries }

UnparsableBody ==
    [parsable |-> FALSE, query |-> UndefinedValue, filters |-> None,
     limit |-> None]

Bodies ==
    { UnparsableBody }
        \cup [ parsable : {TRUE}, query : QueryValues, filters : FilterOpts,
               limit : LimitOpts ]

\* !body.query
Falsy(value) ==
    \/ value.kind = "undefined"
    \/ value.kind = "number" /\ value.num = 0
    \/ value.kind = "string" /\ value.str = <<>>

\* !body.query || typeof body.query !== 'string'
InvalidQuery(body) == Falsy(body.query) \/ body.query.kind # "string"

ErrorResponse(status, code) == [status |-> status, code |-> code, data |-> None]

\* a handler that tries the vector search and, when that fails, answers
\* from the in-memory search
SearchStepFailover(body) ==
    [calls |-> <<"qdrantService.searchLocations", "performInMemorySearch">>,
     data |-> performInMemorySearch(body.query.str, body.filters)]

\* // const searchResponse = await qdrantService.searchLocations(body);
\* const searchResponse = await performInMemorySearch(body.query, body.filters);
SearchStep(body) ==
    [calls |-> <<"performInMemorySearch">>,
     data |-> performInMemorySearch(body.query.str, body.filters)]

\* The rate limiters, one per route, within one window: check counts the
\* request and allows it while the window has room.
Limiters == { "searchRateLimiter", "chatRateLimiter", "safetyRateLimiter" }

Allowed(window, limiter) == window[limiter] < MaxRequests

Check(window, limiter) ==
    IF Allowed(window, limiter)
    THEN [window EXCEPT ![limiter] = @ + 1]
    ELSE window

\* The handler, from auth() to the response.  The body is read only after
\* authentication and the rate limit have passed.
RouteOutcome(authed, allowed, body) ==
    IF ~authed
    THEN [read |-> FALSE, scored |-> FALSE, calls |-> <<"auth">>,
          resp |-> ErrorResponse(401, "UNAUTHORIZED")]
    ELSE IF ~allowed
    THEN [read |-> FALSE, scored |-> FALSE,
          calls |-> <<"auth", "searchRateLimiter.check">>,
          resp |-> ErrorResponse(429, "RATE_LIMIT_EXCEEDED")]
    ELSE IF ~body.parsable
    THEN [read |-> TRUE, scored |-> FALSE,
          calls |-> <<"auth", "searchRateLimiter.check", "request.json">>,
          resp |-> ErrorResponse(500, "INTERNAL_ERROR")]
    ELSE IF InvalidQuery(body)
    THEN [read |-> TRUE, scored |-> FALSE,
          calls |-> <<"auth", "searchRateLimiter.check", "request.json">>,
          resp |-> ErrorResponse(400, "INVALID_REQUEST")]
    ELSE LET step == SearchStep(body)
         IN  [read |-> TRUE, scored |-> TRUE,
              calls |-> <<"auth", "searchRateLimiter.check", "request.json">>
                          \o step.calls,
              resp |-> [status |-> 200, code |-> "OK",
                        data |-> Some(step.data)]]

\* A request that is turned away before request.json() has a body that is
\* never looked at: one body stands for all of them.  The handler reads
\* neither the collection nor the clients: the collection before any load
\* stands for every collection.
POSTOf(bodies) ==
    /\ pc = "idle"
    /\ httpResp = None
    /\ upserts = 0
    /\ \E authed \in BOOLEAN :
          LET allowed == Allowed(used, "searchRateLimiter")
          IN  \E body \in (IF authed /\ allowed THEN bodies
                            ELSE {UnparsableBody}) :
                LET outcome == RouteOutcome(authed, allowed, body)
                IN  /\ httpReq' = Some([route |-> "search",
                                        authed |-> authed,
                                        allowed |-> authed /\ allowed,
                                        body |-> IF outcome.read
                                                 THEN Some(body) ELSE None])
                    /\ httpResp' = Some(outcome.resp)
                    /\ scored' = outcome.scored
                    /\ calls' = outcome.calls
                    /\ used' = IF authed THEN Check(used, "searchRateLimiter")
                               ELSE used
    /\ UNCHANGED <<points, pc, request, indexQuery, hits, failed, response,
                   upserts, client, genAI, env, assessment, llmReply,
                   storeVars, pageVars>>

POST == POSTOf(Bodies)

----------------------------------------------------------------------------
(* POST /api/chat *)

MessageValues ==
    { UndefinedValue, NumberValue(7), StringValue(<<>>), StringValue(<<"a">>) }

ChatBodies ==
    [ parsable : {FALSE}, message : {UndefinedValue} ]
        \cup [ parsable : {TRUE}, message : MessageValues ]

\* !body.message || typeof body.message !== 'string'
InvalidMessage(body) == Falsy(body.message) \/ body.message.kind # "string"

\* model.generateContent of generateChatResponse: a text, or a throw that
\* the service rethrows as 'Failed to generate chat response'
ChatReplies == { "text", "throws" }

\* a handler that validates the body before it asks the rate limiter
ChatOutcomeValidatesFirst(authed, allowed, body, reply) ==
    IF ~authed
    THEN [read |-> FALSE, checked |-> FALSE, calls |-> <<"auth">>,
          resp |-> ErrorResponse(401, "UNAUTHORIZED")]
    ELSE IF ~body.parsable
    THEN [read |-> TRUE, checked |-> FALSE,
          calls |-> <<"auth", "request.json">>,
          resp |-> ErrorResponse(500, "INTERNAL_ERROR")]
    ELSE IF InvalidMessage(body)
    THEN [read |-> TRUE, checked |-> FALSE,
          calls |-> <<"auth", "request.json">>,
          resp |-> ErrorResponse(400, "INVALID_REQUEST")]
    ELSE IF ~allowed
    THEN [read |-> TRUE, checked |-> TRUE,
          calls |-> <<"auth", "request.json", "chatRateLimiter.check">>,
          resp |-> ErrorResponse(429, "RATE_LIMIT_EXCEEDED")]
    ELSE [read |-> TRUE, checked |-> TRUE,
          calls |-> <<"auth", "request.json", "chatRateLimiter.check",
                      "generateChatResponse">>,
          resp |-> IF reply = "throws"
                   THEN ErrorResponse(500, "INTERNAL_ERROR")
                   ELSE [status |-> 200, code |-> "OK",
                         data |-> Some([response |-> reply])]]

\* A request that is turned away before request.json() has a body that is
\* never looked at, and a request that does not reach the service gets no
\* reply of the model: one body and one reply stand for all of them.
ChatBodiesRead(passed) ==
    IF passed THEN ChatBodies ELSE { b \in ChatBodies : ~b.parsable }

ChatRepliesTo(authed, body) ==
    IF authed /\ body.parsable /\ ~InvalidMessage(body) /\ GeminiAvailable
    THEN ChatReplies ELSE {"throws"}

\* The chat handler, from auth() to the response.
ChatOutcome(authed, allowed, body, reply) ==
    IF ~authed
    THEN [read |-> FALSE, checked |-> FALSE, calls |-> <<"auth">>,
          resp |-> ErrorResponse(401, "UNAUTHORIZED")]
    ELSE IF ~allowed
    THEN [read |-> FALSE, checked |-> TRUE,
          calls |-> <<"auth", "chatRateLimiter.check">>,
          resp |-> ErrorResponse(429, "RATE_LIMIT_EXCEEDED")]
    ELSE IF ~body.parsable
    THEN [read |-> TRUE, checked |-> TRUE,
          calls |-> <<"auth", "chatRateLimiter.check", "request.json">>,
          resp |-> ErrorResponse(500, "INTERNAL_ERROR")]
    ELSE IF InvalidMessage(body)
    THEN [read |-> TRUE, checked |-> TRUE,
          calls |-> <<"auth", "chatRateLimiter.check", "request.json">>,
          resp |-> ErrorResponse(400, "INVALID_REQUEST")]
    ELSE [read |-> TRUE, checked |-> TRUE,
          calls |-> <<"auth", "chatRateLimiter.check", "request.json",
                      "generateChatResponse">>,
          resp |-> IF reply = "throws"
                   THEN ErrorResponse(500, "INTERNAL_ERROR")
                   ELSE [status |-> 200, code |-> "OK",
                         data |-> Some([response |-> reply])]]

\* the calls of outcome reached the service
Worked(outcome) == Len(outcome.calls) = 4

chatPOST ==
    /\ pc = "idle"
    /\ httpResp = None
    /\ upserts = 0
    /\ \E authed \in BOOLEAN :
          \E body \in ChatBodiesRead(authed /\ Allowed(used, "chatRateLimiter")) :
          \E reply \in ChatRepliesTo(authed, body) :
            LET allowed == Allowed(used, "chatRateLimiter")
                outcome == ChatOutcome(authed, allowed, body, reply)
            IN  /\ httpReq' = Some([route |-> "chat",
                                    authed |-> authed,
                                    allowed |-> authed /\ allowed,
                                    body |-> IF outcome.read
                                             THEN Some(body) ELSE None])
                /\ httpResp' = Some(outcome.resp)
                /\ scored' = FALSE
                /\ calls' = outcome.calls
                /\ used' = IF outcome.checked
                           THEN Check(used, "chatRateLimiter") ELSE used
                /\ genAI' = IF Worked(outcome) THEN getGenAI(genAI) ELSE genAI
                /\ llmReply' = IF Worked(outcome)
                               THEN Some([kind |-> reply, assessment |-> None])
                               ELSE llmReply
    /\ UNCHANGED <<points, pc, request, indexQuery, hits, failed, response,
                   upserts, client, env, assessment, storeVars, pageVars>>

----------------------------------------------------------------------------
(* POST /api/safety *)

CoordinateValues ==
    { UndefinedValue, NumberValue(0), NumberValue(25),
      StringValue(<<"2", "5">>) }

SafetyBodies ==
    [ parsable : {FALSE}, latitude : {UndefinedValue},
      longitude : {UndefinedValue} ]
        \cup [ parsable : {TRUE}, latitude : CoordinateValues,
               longitude : CoordinateValues ]

\* typeof body.latitude !== 'number' || typeof body.longitude !== 'number'
InvalidCoordinates(body) ==
    body.latitude.kind # "number" \/ body.longitude.kind # "number"

\* a stage 4 that asks for a review of every assessment above 'low'
HumanReviewAboveLow(riskLevel) ==
    IF riskLevel # "low" THEN "required" ELSE "skipped"

\* status of workflow stage 4, 'Human Review'
HumanReview(riskLevel) ==
    IF riskLevel = "high" \/ riskLevel = "critical"
    THEN "required" ELSE "skipped"

SafetyResponse(a) ==
    [riskLevel |-> a.riskLevel, riskScore |-> a.riskScore,
     message |-> a.message, recommendations |-> a.recommendations,
     humanReview |-> HumanReview(a.riskLevel)]

SafetyBodiesRead(passed) ==
    IF passed THEN SafetyBodies ELSE { b \in SafetyBodies : ~b.parsable }

SafetyRepliesTo(authed, body) ==
    IF authed /\ body.parsable /\ ~InvalidCoordinates(body) /\ GeminiAvailable
    THEN Replies ELSE { r \in Replies : r.kind = "throws" }

\* The safety handler, from auth() to the response.
SafetyOutcome(authed, allowed, body, reply) ==
    IF ~authed
    THEN [read |-> FALSE, checked |-> FALSE, calls |-> <<"auth">>,
          resp |-> ErrorResponse(401, "UNAUTHORIZED")]
    ELSE IF ~allowed
    THEN [read |-> FALSE, checked |-> TRUE,
          calls |-> <<"auth", "safetyRateLimiter.check">>,
          resp |-> ErrorResponse(429, "RATE_LIMIT_EXCEEDED")]
    ELSE IF ~body.parsable
    THEN [read |-> TRUE, checked |-> TRUE,
          calls |-> <<"auth", "safetyRateLimiter.check", "request.json">>,
          resp |-> ErrorResponse(500, "INTERNAL_ERROR")]
    ELSE IF InvalidCoordinates(body)
    THEN [read |-> TRUE, checked |-> TRUE,
          calls |-> <<"auth", "safetyRateLimiter.check", "request.json">>,
          resp |-> ErrorResponse(400, "INVALID_REQUEST")]
    ELSE [read |-> TRUE, checked |-> TRUE,
          calls |-> <<"auth", "safetyRateLimiter.check", "request.json",
                      "generateSafetyAssessment">>,
          resp |-> [status |-> 200, code |-> "OK",
                    data |-> Some(SafetyResponse(AssessmentOf(reply)))]]

safetyPOST ==
    /\ pc = "idle"
    /\ httpResp = None
    /\ upserts = 0
    /\ \E authed \in BOOLEAN :
          \E body \in SafetyBodiesRead(authed /\ Allowed(used, "safetyRateLimiter")) :
          \E reply \in SafetyRepliesTo(authed, body) :
            LET allowed == Allowed(used, "safetyRateLimiter")
                outcome == SafetyOutcome(authed, allowed, body, reply)
            IN  /\ httpReq' = Some([route |-> "safety",
                                    authed |-> authed,
                                    allowed |-> authed /\ allowed,
                                    body |-> IF outcome.read
                                             THEN Some(body) ELSE None])
                /\ httpResp' = Some(outcome.resp)
                /\ scored' = FALSE
                /\ calls' = outcome.calls
                /\ used' = IF outcome.checked
                           THEN Check(used, "safetyRateLimiter") ELSE used
                /\ genAI' = IF Worked(outcome) THEN getGenAI(genAI) ELSE genAI
                /\ llmReply' = IF Worked(outcome) THEN Some(reply)
                               ELSE llmReply
                /\ assessment' = IF Worked(outcome)
                                 THEN Some(AssessmentOf(reply)) ELSE assessment
    /\ UNCHANGED <<points, pc, request, indexQuery, hits, failed, response,
                   upserts, client, env, storeVars, pageVars>>

----------------------------------------------------------------------------
(* MobileSidebar in DashboardContent *)

\* The click handlers of the shell set constants and read no state, and
\* usePathname changes with a commit: the shell is observed between events,
\* each taken when no render and no effect is pending.

DashboardPaths ==
    { "/dashboard", "/dashboard/chat", "/dashboard/search",
      "/dashboard/safety" }

RenderPending ==
    mounted /\ rendered # Some([isOpen |-> mobileMenuOpen, pathname |-> pathname])

EffectsPending ==
    /\ rendered # None
    /\ \/ effectPathname # Some(The(rendered).pathname)
       \/ effectIsOpen # Some(The(rendered).isOpen)

Quiescent == ~RenderPending /\ ~EffectsPending

\* if (!isOpen) return null;
Panel == rendered # None /\ The(rendered).isOpen

\* DashboardLayout mounts: useState(false), first render
Mount ==
    /\ ~mounted
    /\ mounted' = TRUE
    /\ mobileMenuOpen' = FALSE
    /\ \E p \in DashboardPaths :
          /\ pathname' = p
          /\ rendered' = Some([isOpen |-> FALSE, pathname |-> p])
    /\ effectPathname' = None
    /\ effectIsOpen' = None
    /\ UNCHANGED <<overflow, closeTrigger>>
    /\ UNCHANGED <<backendVars, chatVars, searchPageVars>>

Render ==
    /\ RenderPending
    /\ ~EffectsPending
    /\ rendered' = Some([isOpen |-> mobileMenuOpen, pathname |-> pathname])
    /\ UNCHANGED <<mounted, mobileMenuOpen, pathname, effectPathname,
                   effectIsOpen, overflow, closeTrigger>>
    /\ UNCHANGED <<backendVars, chatVars, searchPageVars>>

\* a route effect that calls onClose whether or not the sidebar is open
RouteEffectAlways(isOpen) == TRUE

\* useEffect(() => { if (isOpen) { onClose(); } }, [pathname])
RouteEffect(isOpen) == isOpen

\* a scroll effect that never restores the overflow
ScrollEffectSticky(isOpen) == "hidden"

\* useEffect(() => { ... overflow = isOpen ? 'hidden' : 'unset' ... }, [isOpen])
ScrollEffect(isOpen) == IF isOpen THEN "hidden" ELSE "unset"

\* The effects of the committed render whose dependencies changed, in the
\* order they are declared.
RunEffects ==
    /\ EffectsPending
    /\ LET isOpen == The(rendered).isOpen
           routeChanged == effectPathname # Some(The(rendered).pathname)
           openChanged == effectIsOpen # Some(isOpen)
       IN  /\ effectPathname' = Some(The(rendered).pathname)
           /\ effectIsOpen' = Some(isOpen)
           /\ IF routeChanged /\ RouteEffect(isOpen)
              THEN mobileMenuOpen' = FALSE /\ closeTrigger' = "navigation"
              ELSE UNCHANGED <<mobileMenuOpen, closeTrigger>>
           /\ IF openChanged
              THEN overflow' = ScrollEffect(isOpen)
              ELSE UNCHANGED overflow
    /\ UNCHANGED <<mounted, pathname, rendered>>
    /\ UNCHANGED <<backendVars, chatVars, searchPageVars>>

\* onClick={() => setMobileMenuOpen(true)}
OpenMenu ==
    /\ mounted
    /\ Quiescent
    /\ mobileMenuOpen' = TRUE
    /\ closeTrigger' = IF mobileMenuOpen THEN closeTrigger ELSE "none"
    /\ UNCHANGED <<mounted, pathname, rendered, effectPathname, effectIsOpen,
                   overflow>>
    /\ UNCHANGED <<backendVars, chatVars, searchPageVars>>

\* the backdrop and the X button, both onClick={onClose}
ClickClose(trigger) ==
    /\ mounted
    /\ Quiescent
    /\ Panel
    /\ mobileMenuOpen' = FALSE
    /\ closeTrigger' = trigger
    /\ UNCHANGED <<mounted, pathname, rendered, effectPathname, effectIsOpen,
                   overflow>>
    /\ UNCHANGED <<backendVars, chatVars, searchPageVars>>

ClickBackdrop == ClickClose("backdrop")
ClickCloseButton == ClickClose("button")

\* a navigation inside the dashboard
Navigate ==
    /\ mounted
    /\ Quiescent
    /\ \E p \in DashboardPaths \ {pathname} : pathname' = p
    /\ UNCHANGED <<mounted, mobileMenuOpen, rendered, effectPathname,
                   effectIsOpen, overflow, closeTrigger>>
    /\ UNCHANGED <<backendVars, chatVars, searchPageVars>>

\* a navigation out of the dashboard: the layout unmounts and the cleanup
\* of the scroll effect runs
Unmount ==
    /\ mounted
    /\ Quiescent
    /\ mounted' = FALSE
    /\ rendered' = None
    /\ effectPathname' = None
    /\ effectIsOpen' = None
    /\ mobileMenuOpen' = FALSE
    /\ overflow' = "unset"
    /\ UNCHANGED <<pathname, closeTrigger>>
    /\ UNCHANGED <<backendVars, chatVars, searchPageVars>>

InitSidebar ==
    /\ mounted = FALSE
    /\ mobileMenuOpen = FALSE
    /\ pathname = "/dashboard"
    /\ rendered = None
    /\ effectPathname = None
    /\ effectIsOpen = None
    /\ overflow = ""
    /\ closeTrigger = "none"

----------------------------------------------------------------------------
(* ChatPage *)

\* handleSend and the disabled attributes of SearchPage read the state of
\* the committed render: an invocation that comes before the re-render has
\* committed, the case of two quick invocations, reads the state the
\* earlier one found.

\* String.prototype.trim
RECURSIVE TrimStart(_)
TrimStart(s) ==
    IF s # <<>> /\ Head(s) = Space THEN TrimStart(Tail(s)) ELSE s

RECURSIVE TrimEnd(_)
TrimEnd(s) ==
    IF s # <<>> /\ s[Len(s)] = Space
    THEN TrimEnd(SubSeq(s, 1, Len(s) - 1)) ELSE s

Trim(s) == TrimEnd(TrimStart(s))

MessageTexts == { <<>>, <<Space>>, <<"a">>, <<Space, "B">> }

Greeting == StringValue(<<"H", "e", "l", "l", "o">>)
Apology == StringValue(<<"I", Space, "a", "p", "o", "l", "o", "g", "i", "z", "e">>)

\* What the fetch of /api/chat ends with: the envelopes of the chat route,
\* a body that is not JSON, or a rejected fetch.
ChatAnswers ==
    { [kind |-> "json",
       body |-> [success |-> TRUE,
                 data |-> Some([response |-> StringValue(<<"r">>)])]],
      [kind |-> "json", body |-> [success |-> FALSE, data |-> None]],
      [kind |-> "not-json", body |-> [success |-> FALSE, data |-> None]],
      [kind |-> "network-failure",
       body |-> [success |-> FALSE, data |-> None]] }

\* data.response, for the parsed body `data'
ResponseOf(body) ==
    IF "response" \in DOMAIN body THEN body.response ELSE UndefinedValue

\* the content of the assistant message
AssistantContent(answer) ==
    IF answer.kind = "json" /\ answer.body.success
    THEN ResponseOf(answer.body)
    ELSE Apology

\* handleSend, up to the fetch
handleSend ==
    /\ sends < MaxSends
    /\ \E messageText \in MessageTexts :
          \* if (!messageText.trim() || isLoading) return;
          IF Trim(messageText) = <<>> \/ handleSendSees
          THEN UNCHANGED chatVars
          ELSE /\ messages' = Append(messages,
                      [role |-> "user", content |-> StringValue(Trim(messageText))])
               /\ isLoading' = TRUE
               /\ fetches' = fetches \cup
                      { [id |-> sends + 1, message |-> messageText] }
               /\ sends' = sends + 1
               /\ UNCHANGED handleSendSees
    /\ UNCHANGED <<backendVars, sidebarVars, searchPageVars>>

\* ChatPage re-renders: the input gets the handleSend of the new render
ChatRender ==
    /\ handleSendSees # isLoading
    /\ handleSendSees' = isLoading
    /\ UNCHANGED <<messages, isLoading, fetches, sends>>
    /\ UNCHANGED <<backendVars, sidebarVars, searchPageVars>>

\* handleSend, from the end of the fetch to the finally block
ChatSettles ==
    /\ \E fetch \in fetches, answer \in ChatAnswers :
          /\ messages' = Append(messages,
                 [role |-> "assistant", content |-> AssistantContent(answer)])
          /\ fetches' = fetches \ {fetch}
    /\ isLoading' = FALSE
    /\ UNCHANGED <<handleSendSees, sends>>
    /\ UNCHANGED <<backendVars, sidebarVars, searchPageVars>>

InitChat ==
    /\ messages = << [role |-> "assistant", content |-> Greeting] >>
    /\ isLoading = FALSE
    /\ handleSendSees = FALSE
    /\ fetches = {}
    /\ sends = 0

----------------------------------------------------------------------------
(* SearchPage *)

\* sampleQueries.slice(0, 6)
SampleQueries == { <<"a">>, <<"B">> }

\* what the user types into the input
TypedQueries == { <<>>, <<Space>>, <<"c">> }

\* What the fetch of /api/search ends with: the 200 envelope of the route
\* for the query sent, with some queryTimeMs, or a failure (an error
\* envelope, a body that is not JSON, a rejected fetch).
SearchAnswers(queryText) ==
    { [success |-> TRUE,
       results |-> performInMemorySearch(queryText, None).results,
       queryTimeMs |-> t] : t \in {3, 4} }
        \cup { [success |-> FALSE, results |-> <<>>, queryTimeMs |-> 0] }

\* onChange={(e) => setQuery(e.target.value)}
setQuery ==
    /\ \E text \in TypedQueries : pageQuery' = text
    /\ UNCHANGED <<pageResults, pageIsLoading, searchTime, hasSearched,
                   pageShows, searches, issued, answered>>
    /\ UNCHANGED <<backendVars, sidebarVars, chatVars>>

\* SearchPage re-renders
SearchRender ==
    /\ pageShows # [query |-> pageQuery, isLoading |-> pageIsLoading]
    /\ pageShows' = [query |-> pageQuery, isLoading |-> pageIsLoading]
    /\ UNCHANGED <<pageQuery, pageResults, pageIsLoading, searchTime,
                   hasSearched, searches, issued, answered>>
    /\ UNCHANGED <<backendVars, sidebarVars, chatVars>>

\* handleSearch, up to the fetch, for the queryText it computed
handleSearch(queryText) ==
    \* if (!queryText) return;
    IF queryText = <<>>
    THEN UNCHANGED <<pageResults, pageIsLoading, searchTime, hasSearched,
                     searches, issued, answered>>
    ELSE /\ pageIsLoading' = TRUE
         /\ hasSearched' = TRUE
         /\ searches' = searches \cup { [id |-> issued + 1, query |-> queryText] }
         /\ issued' = issued + 1
         /\ answered' = None
         /\ UNCHANGED <<pageResults, searchTime>>

\* The form is submitted: the submit button of the committed render is not
\* disabled, and handleSearch() reads the query of that render.
SubmitForm ==
    /\ issued < MaxSearches
    /\ ~(Trim(pageShows.query) = <<>> \/ pageShows.isLoading)
    /\ handleSearch(Trim(pageShows.query))
    /\ UNCHANGED <<pageQuery, pageShows>>
    /\ UNCHANGED <<backendVars, sidebarVars, chatVars>>

\* A sample button of the committed render is clicked.
ClickSample ==
    /\ issued < MaxSearches
    /\ ~pageShows.isLoading
    /\ \E sample \in SampleQueries :
          /\ pageQuery' = sample
          /\ handleSearch(sample)
    /\ UNCHANGED pageShows
    /\ UNCHANGED <<backendVars, sidebarVars, chatVars>>

\* handleSearch, from the end of the fetch to the finally block
SearchSettles ==
    /\ \E search \in searches :
          \E answer \in SearchAnswers(search.query) :
            /\ IF answer.success
               THEN /\ pageResults' = answer.results
                    /\ searchTime' = Some(answer.queryTimeMs)
               ELSE /\ pageResults' = <<>>
                    /\ UNCHANGED searchTime
            /\ searches' = searches \ {search}
            /\ answered' = IF search.id = issued THEN Some(answer)
                           ELSE answered
    /\ pageIsLoading' = FALSE
    /\ UNCHANGED <<pageQuery, hasSearched, pageShows, issued>>
    /\ UNCHANGED <<backendVars, sidebarVars, chatVars>>

InitSearchPage ==
    /\ pageQuery = <<>>
    /\ pageResults = <<>>
    /\ pageIsLoading = FALSE
    /\ searchTime = None
    /\ hasSearched = FALSE
    /\ pageShows = [query |-> <<>>, isLoading |-> FALSE]
    /\ searches = {}
    /\ issued = 0
    /\ answered = None

InitPages == InitSidebar /\ InitChat /\ InitSearchPage

----------------------------------------------------------------------------
(* Specification *)

Init ==
    /\ points = <<>>
    /\ pc = "idle"
    /\ request = None
    /\ indexQuery = None
    /\ hits = None
    /\ failed = "none"
    /\ response = None
    /\ httpReq = None
    /\ httpResp = None
    /\ scored = FALSE
    /\ upserts = 0
    /\ calls = <<>>
    /\ client = None
    /\ genAI = None
    /\ env = [QDRANT_API_KEY |-> TRUE, GEMINI_API_KEY |-> TRUE]
    /\ assessment = None
    /\ used = [l \in Limiters |-> 0]
    /\ llmReply = None
    /\ bulk = None
    /\ named = <<>>
    /\ lookup = None
    /\ InitPages

Next ==
    \/ bulkAddLocations
    \/ bulkAddLocationsFails
    \/ searchLocations
    \/ EmbeddingReturns
    \/ EmbeddingFails
    \/ IndexReturns
    \/ IndexFails
    \/ POST

Spec == Init /\ [][Next]_vars

----------------------------------------------------------------------------
(* The route, whatever the state of the providers *)

Environments == [ QDRANT_API_KEY : BOOLEAN, GEMINI_API_KEY : BOOLEAN ]

RouteBodies == { body \in Bodies : body.filters = None }

InitAnyEnvironment ==
    /\ points = <<>>
    /\ pc = "idle"
    /\ request = None
    /\ indexQuery = None
    /\ hits = None
    /\ failed = "none"
    /\ response = None
    /\ httpReq = None
    /\ httpResp = None
    /\ scored = FALSE
    /\ upserts = 0
    /\ calls = <<>>
    /\ client = None
    /\ genAI = None
    /\ env \in Environments
    /\ assessment = None
    /\ used = [l \in Limiters |-> 0]
    /\ llmReply = None
    /\ bulk = None
    /\ named = <<>>
    /\ lookup = None
    /\ InitPages

NextRoute == POSTOf(RouteBodies)

SpecRoute == InitAnyEnvironment /\ [][NextRoute]_vars

----------------------------------------------------------------------------
(* The service, whatever the state of the providers *)

ClientRequests ==
    [ query : ServiceQueries, filters : {None}, limit : {None},
      userLocation : {None} ]

NextClients ==
    \/ generateSafetyAssessment
    \/ bulkAddLocations
    \/ bulkAddLocationsFails
    \/ searchLocationsOf(ClientRequests)
    \/ EmbeddingReturns
    \/ EmbeddingFails
    \/ IndexReturns
    \/ IndexFails

SpecClients == InitAnyEnvironment /\ [][NextClients]_vars

----------------------------------------------------------------------------
(* The search of a user who sends a location *)

\* locations on the grid, one of them without coordinates
NearbyLocations ==
    { [AllLocations[1] EXCEPT !.latitude = Some(90), !.longitude = Some(90)],
      [AllLocations[2] EXCEPT !.latitude = Some(0), !.longitude = Some(90)],
      [AllLocations[3] EXCEPT !.latitude = Some(-90), !.longitude = Some(0)],
      [AllLocations[3] EXCEPT !.latitude = None, !.longitude = None] }

NearbyRequests ==
    [ query : ServiceQueries, filters : {None}, limit : {None},
      userLocation : {None} \cup { Some(u) : u \in UserLocations } ]

NextNearby ==
    \/ bulkAddLocationsOf(BulkInputsOf(NearbyLocations))
    \/ bulkAddLocationsFails
    \/ searchLocationsOf(NearbyRequests)
    \/ EmbeddingReturns
    \/ EmbeddingFails
    \/ IndexReturns
    \/ IndexFails

SpecNearby == Init /\ [][NextNearby]_vars

\* The stored points: loads, single additions and lookups by id.
NextStore ==
    \/ bulkAddLocationsOf(BulkInputs)
    \/ bulkAddLocationsFailsOf(BulkInputs)
    \/ addLocation
    \/ addLocationFails
    \/ getLocationById

SpecStore == Init /\ [][NextStore]_vars

\* What the windows of the limiters hold when a request arrives: the
\* requests each limiter counted earlier in its window.
Windows == [ Limiters -> 0..MaxRequests ]

InitHandlers ==
    /\ points = <<>>
    /\ pc = "idle"
    /\ request = None
    /\ indexQuery = None
    /\ hits = None
    /\ failed = "none"
    /\ response = None
    /\ httpReq = None
    /\ httpResp = None
    /\ scored = FALSE
    /\ upserts = 0
    /\ calls = <<>>
    /\ client = None
    /\ genAI \in {None, Some(1)}
    /\ env \in Environments
    /\ assessment = None
    /\ used \in Windows
    /\ llmReply = None
    /\ bulk = None
    /\ named = <<>>
    /\ lookup = None
    /\ InitPages

\* One request to one of the three POST handlers, in every environment and
\* with every window of the limiters.
NextHandlers ==
    \/ POSTOf(RouteBodies)
    \/ chatPOST
    \/ safetyPOST

SpecHandlers == InitHandlers /\ [][NextHandlers]_vars

\* ChatPage alone; React runs a pending render and every fetch ends.
NextChat ==
    \/ handleSend
    \/ ChatRender
    \/ ChatSettles

SpecChat ==
    /\ Init
    /\ [][NextChat]_vars
    /\ WF_vars(ChatRender)
    /\ WF_vars(ChatSettles)

\* SearchPage alone.
NextSearchPage ==
    \/ setQuery
    \/ SearchRender
    \/ SubmitForm
    \/ ClickSample
    \/ SearchSettles

SpecSearchPage == Init /\ [][NextSearchPage]_vars

\* The dashboard shell alone; React runs a pending render and pending
\* effects without waiting for anything.
NextSidebar ==
    \/ Mount
    \/ Render
    \/ RunEffects
    \/ OpenMenu
    \/ ClickBackdrop
    \/ ClickCloseButton
    \/ Navigate
    \/ Unmount

SpecSidebar ==
    /\ Init
    /\ [][NextSidebar]_vars
    /\ WF_vars(Render)
    /\ WF_vars(RunEffects)

----------------------------------------------------------------------------
(* Properties *)

Returned == pc = "returned"
Results == The(response).results
Hits == The(hits)
RequestFilters == The(request).filters

Http200 == httpResp # None /\ The(httpResp).status = 200
HttpResults == The(The(httpResp).data).results
BodyRead == httpReq # None /\ The(httpReq).body # None
HttpBody == The(The(httpReq).body)

\* C1: whenever searchLocations returns a response, results.length is at
\* most request.limit (10 when request.limit is absent) and total equals
\* results.length.
C1_ResultsWithinLimit ==
    Returned =>
        /\ Len(Results) <= (IF The(request).limit = None THEN 10
                            ELSE The(The(request).limit))
        /\ The(response).total = Len(Results)

\* C2: a success response of POST /api/search to a request with a positive
\* integer limit has results.length <= limit and total = results.length.
C2_RouteHonoursLimit ==
    (Http200 /\ HttpBody.limit # None /\ The(HttpBody.limit) > 0) =>
        /\ Len(HttpResults) <= The(HttpBody.limit)
        /\ The(The(httpResp).data).total = Len(HttpResults)

\* the constraint of every filter field present, conjunctively
MeetsFilters(result, filters) ==
    /\ FilterField(filters, "category") # None =>
          result.category = The(FilterField(filters, "category"))
    /\ FilterField(filters, "priceRange") # None =>
          result.priceRange = The(FilterField(filters, "priceRange"))
    /\ FilterField(filters, "rating") # None =>
          result.rating >= The(FilterField(filters, "rating"))
    /\ FilterField(filters, "halalCertified") # None =>
          result.halalCertified = FilterField(filters, "halalCertified")
    /\ FilterField(filters, "familyFriendly") # None =>
          result.familyFriendly = FilterField(filters, "familyFriendly")

\* C3: every returned result satisfies the constraint of every filter field
\* present in the request (category, priceRange, rating, halalCertified,
\* familyFriendly), for searchLocations and for POST /api/search.
C3_AllFiltersApplied ==
    /\ Returned =>
          \A i \in 1..Len(Results) : MeetsFilters(Results[i], RequestFilters)
    /\ Http200 =>
          \A i \in 1..Len(HttpResults) :
              MeetsFilters(HttpResults[i], HttpBody.filters)

ExplicitFalseHonoured(results, filters) ==
    /\ FilterField(filters, "halalCertified") = Some(FALSE) =>
          \A i \in 1..Len(results) : results[i].halalCertified = Some(FALSE)
    /\ FilterField(filters, "familyFriendly") = Some(FALSE) =>
          \A i \in 1..Len(results) : results[i].familyFriendly = Some(FALSE)

\* C4: with filters.halalCertified === false every returned result has
\* halalCertified === false, never true or missing; the same for
\* familyFriendly; in searchLocations and in POST /api/search.
C4_ExplicitFalseHonoured ==
    /\ Returned => ExplicitFalseHonoured(Results, RequestFilters)
    /\ Http200 => ExplicitFalseHonoured(HttpResults, HttpBody.filters)

\* a search filtered on halalCertified false returned a result although the
\* collection holds a point whose halalCertified is true or missing
C4_Witness ==
    /\ Returned
    /\ FilterField(RequestFilters, "halalCertified") = Some(FALSE)
    /\ Len(Results) > 0
    /\ \E id \in DOMAIN points : points[id].halalCertified # Some(FALSE)

\* a location is a candidate of the in-memory search when it matches a word
\* of the query and passes the filters other than rating
Candidate(location, body) ==
    /\ SimilarityScore(location, body.query.str).num > 0
    /\ ~ExcludedByCategory(location, body.filters)
    /\ ~ExcludedByHalal(location, body.filters)
    /\ ~ExcludedByFamily(location, body.filters)

\* C5: with filters.rating present every returned result has rating >=
\* filters.rating; the bound is inclusive and there is no upper bound: the
\* rating condition sent to the index accepts every stored rating at or above
\* the threshold, and the in-memory search returns every candidate whose
\* rating is at or above it.
C5_RatingLowerBound ==
    /\ (Returned /\ FilterField(RequestFilters, "rating") # None) =>
          \A i \in 1..Len(Results) :
              Results[i].rating >= The(FilterField(RequestFilters, "rating"))
    /\ (indexQuery # None /\ FilterField(RequestFilters, "rating") # None
          /\ The(indexQuery).filter # None) =>
          \A i \in 1..Len(The(The(indexQuery).filter).must) :
              LET cond == The(The(indexQuery).filter).must[i]
              IN  cond.key = "rating" =>
                    \A r \in 0..5 :
                        r >= The(FilterField(RequestFilters, "rating")) =>
                            Satisfies([rating |-> r], cond)
    /\ (Http200 /\ FilterField(HttpBody.filters, "rating") # None) =>
          /\ \A i \in 1..Len(HttpResults) :
                HttpResults[i].rating
                    >= The(FilterField(HttpBody.filters, "rating"))
          /\ \A location \in LocationSet :
                (Candidate(location, HttpBody)
                   /\ location.rating
                        >= The(FilterField(HttpBody.filters, "rating"))) =>
                    \/ Len(HttpResults) = MaxResults
                    \/ \E i \in 1..Len(HttpResults) :
                          HttpResults[i].id = location.id

\* the in-memory search with a rating threshold returned a location whose
\* rating equals the threshold
C5_Witness ==
    /\ Http200
    /\ TruthyNumber(FilterField(HttpBody.filters, "rating"))
    /\ \E i \in 1..Len(HttpResults) :
          HttpResults[i].rating = The(FilterField(HttpBody.filters, "rating"))

\* C6: searchLocations passes the 'no filter' value to the index if and only
\* if every SearchFilters field of the request is absent.
C6_NoFilterIffAllAbsent ==
    indexQuery # None =>
        (The(indexQuery).filter = None
            <=> \A k \in FilterKeys : FilterField(RequestFilters, k) = None)

InUnitInterval(score) == 0 <= score.num /\ score.num <= score.den

NonIncreasing(results) ==
    \A i \in 1..(Len(results) - 1) :
        ScoreLeq(results[i + 1].similarityScore, results[i].similarityScore)

\* C7: every similarityScore lies in [0,1] and results are in non-increasing
\* score order; searchLocations returns one result per hit, in the order of
\* the hits, with the score of the hit; the in-memory score of a result is
\* the number of query words its location's text contains over the number of
\* query words.
C7_ScoresOrdered ==
    /\ Returned =>
          /\ Len(Results) = Len(Hits)
          /\ \A i \in 1..Len(Results) :
                /\ Results[i].similarityScore = Hits[i].score
                /\ Results[i].name = Hits[i].payload.name
                /\ Results[i].description = Hits[i].payload.description
                /\ InUnitInterval(Results[i].similarityScore)
          /\ NonIncreasing(Results)
    /\ Http200 =>
          /\ \A i \in 1..Len(HttpResults) :
                LET words == Split(ToLowerCase(HttpBody.query.str))
                    location == CHOOSE l \in LocationSet :
                                    l.id = HttpResults[i].id
                IN  /\ InUnitInterval(HttpResults[i].similarityScore)
                    /\ HttpResults[i].similarityScore.den = Len(words)
                    /\ HttpResults[i].similarityScore.num =
                          Cardinality({ j \in 1..Len(words) :
                              Includes(SearchText(location), words[j]) })
          /\ NonIncreasing(HttpResults)

\* the in-memory search returned two results with different scores
C7_Witness ==
    /\ Http200
    /\ \E i, j \in 1..Len(HttpResults) :
          ~ScoreLeq(HttpResults[i].similarityScore,
                    HttpResults[j].similarityScore)

\* C8: when the embedding call or the index query fails, searchLocations
\* throws and returns no SearchResponse, neither partial nor empty; a call
\* that returned a response had no failed external call.
C8_FailurePropagates ==
    /\ failed # "none" => (pc = "threw" /\ response = None)
    /\ Returned => failed = "none"
    /\ pc = "threw" => failed # "none"

\* the index query failed while the collection held points
C8_Witness ==
    /\ failed = "index"
    /\ pc = "threw"
    /\ DOMAIN points # {}

\* C9: a request whose query is missing or not a string, or whose limit is
\* <= 0, is answered 400 without the search being run, and no non-positive
\* limit is passed to the index.
C9_InvalidRejected ==
    /\ (BodyRead /\ HttpBody.parsable
          /\ (InvalidQuery(HttpBody)
                \/ (HttpBody.limit # None /\ The(HttpBody.limit) <= 0))) =>
          (The(httpResp).status = 400 /\ ~scored)
    /\ indexQuery # None => The(indexQuery).limit > 0

\* C10: the id of every result of searchLocations is the original string id
\* of the location, which bulkAddLocations kept in payload.originalId.
C10_IdRoundTrip ==
    Returned =>
        \A i \in 1..Len(Results) : Results[i].id = Hits[i].payload.originalId

----------------------------------------------------------------------------
(* Queries that name themes *)

SuggestWords ==
    { Romantic, Sunset, Family, Kids, Luxury, Expensive, Cheap, Budget,
      Traditional, <<"S", "u", "n", "s", "e", "t">>, <<"K", "I", "D", "S">>,
      <<"r", "o", "m", "a", "n">>, <<"x">> }

SuggestQueries ==
    { Join(ws) : ws \in UNION { [1..n -> SuggestWords] : n \in 1..MaxWords } }

SuggestRequests ==
    [ query : SuggestQueries, filters : {None}, limit : {None},
      userLocation : {None} ]

SuggestBodies ==
    [ parsable : {TRUE}, query : { StringValue(q) : q \in SuggestQueries },
      filters : {None}, limit : {None} ]

NextSuggest ==
    \/ searchLocationsOf(SuggestRequests)
    \/ EmbeddingReturns
    \/ EmbeddingFails
    \/ IndexReturns
    \/ IndexFails
    \/ POSTOf(SuggestBodies)

SpecSuggest == Init /\ [][NextSuggest]_vars

----------------------------------------------------------------------------
(* Suggestions *)

HttpSuggestions == The(The(httpResp).data).suggestions

\* C12: the suggestions of a POST /api/search response are those of
\* generateSearchSuggestions, the generator of the service, for the query of
\* the request: same theme, same sequence.
C12_RouteSuggestionsOfGenerator ==
    Http200 => HttpSuggestions = generateSearchSuggestions(HttpBody.query.str)

\* the themes in priority order: keywords and suggestion set
Themes ==
    << [keywords |-> {Romantic, Sunset},
        set |-> {"romantic dinner with view", "sunset beach spots",
                 "couples activities Dubai"}],
       [keywords |-> {Family, Kids},
        set |-> {"family-friendly attractions", "water parks Dubai",
                 "kid-friendly restaurants"}],
       [keywords |-> {Luxury, Expensive},
        set |-> {"luxury shopping malls", "fine dining Dubai",
                 "5-star experiences"}],
       [keywords |-> {Cheap, Budget},
        set |-> {"budget-friendly activities", "affordable restaurants",
                 "free attractions Dubai"}] >>

DefaultSet == {"traditional souks", "modern attractions", "beach activities"}

\* keyword occurs in query at some offset, letter case ignored
OccursIgnoringCase(keyword, query) ==
    \E offset \in 0..(Len(query) - Len(keyword)) :
        \A k \in 1..Len(keyword) :
            ToLowerChar(query[offset + k]) = ToLowerChar(keyword[k])

Matching(query) ==
    { t \in 1..Len(Themes) :
        \E keyword \in Themes[t].keywords : OccursIgnoringCase(keyword, query) }

ThemeSetOf(query) ==
    IF Matching(query) = {} THEN DefaultSet
    ELSE Themes[CHOOSE t \in Matching(query) :
                    \A u \in Matching(query) : t <= u].set

Range(seq) == { seq[i] : i \in 1..Len(seq) }

\* C13: the suggestions of a searchLocations response are exactly 3, all of
\* one theme: the first theme in priority order with a keyword occurring in
\* the query as a case-insensitive substring, the default set when none
\* occurs.
C13_OneThemeOfThree ==
    Returned =>
        /\ Len(The(response).suggestions) = 3
        /\ Range(The(response).suggestions) = ThemeSetOf(The(request).query)
        /\ Cardinality(Range(The(response).suggestions)) = 3

\* a query naming the family theme before the romantic one, in capitals
C13_Witness ==
    /\ Returned
    /\ The(request).query = Join(<< <<"K", "I", "D", "S">>,
                                    <<"S", "u", "n", "s", "e", "t">> >>)
    /\ The(response).suggestions[2] = "sunset beach spots"

----------------------------------------------------------------------------
(* The calls of a search *)

EmbeddingThenQuery == <<"generateEmbedding", "qdrant.search">>

\* C14: a searchLocations call issues the embedding request first and the
\* index query only after the embedding has returned; each is issued at most
\* once, and after an embedding failure no index query is issued.
C14_EmbeddingBeforeQuery ==
    /\ pc = "idle" => calls = <<>>
    /\ pc = "embedding" => calls = <<"generateEmbedding">>
    /\ pc = "querying" => calls = EmbeddingThenQuery /\ failed = "none"
    /\ pc = "returned" => calls = EmbeddingThenQuery /\ failed = "none"
    /\ failed = "index" => calls = EmbeddingThenQuery
    /\ failed = "embedding" =>
          calls = <<"generateEmbedding">> /\ indexQuery = None
    /\ indexQuery # None <=> calls = EmbeddingThenQuery

C14_Witness ==
    /\ failed = "index"
    /\ calls = EmbeddingThenQuery
    /\ DOMAIN points # {}

\* C17: no step of a searchLocations call, successful or failed, issues an
\* upsert or changes the stored records.
C17_SearchReadOnly ==
    [][pc' # pc => points' = points /\ upserts' = upserts]_vars

C17_Witness ==
    /\ Returned
    /\ Len(Results) > 0
    /\ { Hits[i].id : i \in 1..Len(Hits) } \subseteq DOMAIN points

----------------------------------------------------------------------------
(* The route: scorer and statuses *)

C16_StatusByCase ==
    httpResp # None =>
        LET req == The(httpReq)
            resp == The(httpResp)
        IN  /\ ~req.authed => resp.status = 401 /\ resp.code = "UNAUTHORIZED"
            /\ req.authed /\ ~req.allowed =>
                  resp.status = 429 /\ resp.code = "RATE_LIMIT_EXCEEDED"
            /\ BodyRead /\ (~HttpBody.parsable \/ InvalidQuery(HttpBody)) =>
                  resp.status = 400 /\ resp.code = "INVALID_REQUEST"
            /\ BodyRead /\ HttpBody.parsable /\ ~InvalidQuery(HttpBody) =>
                  resp.status = 200 /\ resp.data # None
            /\ resp.status # 200 => resp.data = None /\ resp.code # "OK"

----------------------------------------------------------------------------
(* The provider clients *)

OperationStarted == pc # "idle" \/ upserts > 0

\* C19: no client exists before the first operation that needs it; each is
\* constructed once and that instance is used from then on; where a
\* credential is absent, no operation that uses the client returns
\* normally: each of them fails.
C19_LazySingletons ==
    /\ client \in {None, Some(1)}
    /\ genAI \in {None, Some(1)}
    /\ OperationStarted => client = Some(1) /\ genAI = Some(1)
    /\ assessment # None => genAI = Some(1)
    /\ ~GeminiAvailable =>
          /\ upserts = 0
          /\ pc \in {"idle", "embedding", "threw"}
          /\ assessment = None
    /\ ~QdrantAvailable =>
          /\ upserts = 0
          /\ pc # "returned"

----------------------------------------------------------------------------
(* Distance *)

HasCoordinates(payload) == payload.latitude # None /\ payload.longitude # None

\* C11: a result of searchLocations carries a distance if and only if the
\* request has a userLocation and the record has coordinates, whatever the
\* coordinates are, latitude 0 and longitude 0 included; otherwise the
\* distance is absent.
C11_DistanceIffLocated ==
    Returned =>
        \A i \in 1..Len(Results) :
            Results[i].distance # None
                <=> (The(request).userLocation # None
                        /\ HasCoordinates(Hits[i].payload))

\* the great-circle distance by the spherical law of cosines, in tenths of a
\* kilometre: a quarter of the circumference is 10007.5 km, a half 20015.1 km
Sin(x) == Cos(x - 1)

CosCentralAngle(lat1, lon1, lat2, lon2) ==
    Sin(toRad(lat1)) * Sin(toRad(lat2))
        + Cos(toRad(lat1)) * Cos(toRad(lat2)) * Cos(toRad(lon2 - lon1))

GreatCircle(lat1, lon1, lat2, lon2) ==
    CASE CosCentralAngle(lat1, lon1, lat2, lon2) = 1 -> 0
      [] CosCentralAngle(lat1, lon1, lat2, lon2) = 0 -> 100075
      [] CosCentralAngle(lat1, lon1, lat2, lon2) = -1 -> 200151

\* C20: when the request has a userLocation and the record has coordinates,
\* the distance of the result is the great-circle distance of the two points
\* for an Earth radius of 6371 km, rounded to 1 decimal place: 0 for
\* identical points, non-negative, and the same with the points swapped.
C20_DistanceIsHaversine ==
    Returned =>
        \A i \in 1..Len(Results) :
            (The(request).userLocation # None
                /\ HasCoordinates(Hits[i].payload)) =>
            LET user == The(The(request).userLocation)
                lat == The(Hits[i].payload.latitude)
                lng == The(Hits[i].payload.longitude)
            IN  /\ Results[i].distance
                      = Some(GreatCircle(user.lat, user.lng, lat, lng))
                /\ Results[i].distance
                      = Some(calculateDistance(lat, lng, user.lat, user.lng))
                /\ The(Results[i].distance) >= 0
                /\ (user.lat = lat /\ user.lng = lng) =>
                      Results[i].distance = Some(0)

\* The effects of the sidebar have run at some time and none is pending.
EffectsHaveRun == Quiescent /\ overflow # ""

SidebarOpen == mounted /\ mobileMenuOpen

\* C21: after effects have run, the body's overflow is 'hidden' exactly
\* when the MobileSidebar is open, it is 'unset' whenever the sidebar is
\* closed or unmounted, and a closed sidebar renders no panel and no backdrop.
C21_OverflowIffOpen ==
    EffectsHaveRun =>
        /\ overflow = "hidden" <=> SidebarOpen
        /\ ~SidebarOpen => overflow = "unset" /\ ~Panel
        /\ SidebarOpen => Panel

\* the sidebar was open, with the scroll locked, and has been unmounted
C21_Witness ==
    /\ ~mounted
    /\ overflow = "unset"
    /\ closeTrigger = "none"
    /\ pathname # "/dashboard"

NavigatedWhileOpen ==
    mounted /\ Panel /\ mobileMenuOpen /\ pathname # The(rendered).pathname

CloseTriggers == { "navigation", "backdrop", "button" }

\* C22: a pathname change while the sidebar is open leads to onClose being
\* invoked by the route effect and the sidebar being closed; the route
\* effect of a closed sidebar invokes nothing; and an open sidebar of a
\* mounted dashboard closes only by navigation, backdrop click or X button.
C22_AutoCloseOnNavigation ==
    /\ NavigatedWhileOpen ~> (~mobileMenuOpen /\ closeTrigger = "navigation")
    /\ [][(rendered # None /\ ~The(rendered).isOpen
              /\ effectPathname' # effectPathname)
             => UNCHANGED <<mobileMenuOpen, closeTrigger>>]_vars
    /\ [][(mobileMenuOpen /\ ~mobileMenuOpen' /\ mounted')
             => closeTrigger' \in CloseTriggers]_vars
    /\ [][(mobileMenuOpen /\ mobileMenuOpen')
             => closeTrigger' = "none"]_vars

\* the sidebar was closed by a navigation and the scroll is restored
C22_Witness ==
    /\ mounted
    /\ Quiescent
    /\ ~mobileMenuOpen
    /\ closeTrigger = "navigation"
    /\ overflow = "unset"

LimiterOf(route) ==
    IF route = "search" THEN "searchRateLimiter"
    ELSE IF route = "chat" THEN "chatRateLimiter"
    ELSE "safetyRateLimiter"

\* authentication, rate limit, body, work
HandlerOrder(route) ==
    IF route = "search"
    THEN <<"auth", "searchRateLimiter.check", "request.json",
           "performInMemorySearch">>
    ELSE IF route = "chat"
    THEN <<"auth", "chatRateLimiter.check", "request.json",
           "generateChatResponse">>
    ELSE <<"auth", "safetyRateLimiter.check", "request.json",
           "generateSafetyAssessment">>

IsPrefixOf(s, t) == Len(s) <= Len(t) /\ s = SubSeq(t, 1, Len(s))

\* what a step of a handler did, by the status it answered with
HandledInOrder ==
    httpResp' # None =>
        LET req == The(httpReq')
            resp == The(httpResp')
            limiter == LimiterOf(req.route)
        IN  /\ IsPrefixOf(calls', HandlerOrder(req.route))
            /\ \A l \in Limiters \ {limiter} : used'[l] = used[l]
            /\ resp.status = 401 => used' = used /\ calls' = <<"auth">>
            /\ resp.status = 429 =>
                  /\ req.body = None
                  /\ Len(calls') = 2
                  /\ ~scored'
                  /\ genAI' = genAI
                  /\ assessment' = assessment
            /\ resp.status = 400 =>
                  /\ used'[limiter] = used[limiter] + 1
                  /\ Len(calls') = 3
            /\ resp.status = 200 => calls' = HandlerOrder(req.route)

SafetyAccepted ==
    /\ httpResp # None
    /\ The(httpReq).route = "safety"
    /\ The(httpReq).authed
    /\ The(httpReq).allowed
    /\ The(httpReq).body # None
    /\ The(The(httpReq).body).parsable
    /\ The(The(httpReq).body).latitude.kind = "number"
    /\ The(The(httpReq).body).longitude.kind = "number"

\* the LLM call failed, or its reply held no JSON that parses
AssessmentFailed == llmReply # None /\ The(llmReply).kind # "json"

NonEmptyWords(query) ==
    LET words == Split(ToLowerCase(query))
    IN  { words[i] : i \in { k \in 1..Len(words) : words[k] # <<>> } }

\* C24: every result of the in-memory search of POST /api/search contains
\* at least one non-empty word of the query in its lower-cased name,
\* description, tags and category text, for every accepted query, also
\* one with leading, trailing or repeated spaces.
C24_ResultsMatchAWord ==
    (Http200 /\ The(httpReq).route = "search") =>
        \A i \in 1..Len(HttpResults) :
            \E word \in NonEmptyWords(HttpBody.query.str) :
                Includes(SearchText(HttpResults[i]), word)

BulkReturned == bulk # None /\ The(bulk).outcome = "returned"
BulkThrown == bulk # None /\ The(bulk).outcome = "thrown"

\* the points 1..n hold the input locations, in order
BulkStored ==
    BulkReturned =>
        LET locations == The(bulk).locations
        IN  /\ 1..Len(locations) \subseteq DOMAIN points
            /\ \A i \in 1..Len(locations) :
                  /\ points[i].originalId = locations[i].id
                  /\ [f \in DOMAIN locations[i] |-> points[i][f]]
                        = locations[i]

\* a call that threw upserted nothing; a call that returned issued one
\* upsert, of the points 1..n and of no other
BulkAllOrNothing ==
    /\ BulkThrown' => points' = points /\ upserts' = upserts
    /\ upserts' # upserts =>
          /\ upserts' = upserts + 1
          /\ BulkReturned'
          /\ LET n == Len(The(bulk').locations)
             IN  /\ DOMAIN points' = DOMAIN points \cup 1..n
                 /\ \A id \in DOMAIN points \ 1..n : points'[id] = points[id]

\* C25: bulkAddLocations is all-or-nothing: when an embedding fails no
\* point is upserted and the error is rethrown; on success one upsert is
\* issued with one point per input location, the ids 1..n, and the
\* location's own id in payload.originalId.
C25_BulkAllOrNothing == []BulkStored /\ [][BulkAllOrNothing]_vars

\* two locations were loaded, the landmark second
C25_Witness ==
    /\ BulkReturned
    /\ Len(The(bulk).locations) = 2
    /\ DOMAIN points = 1..2
    /\ points[2].originalId = "burj-khalifa"
    /\ points[1].originalId # points[2].originalId

\* the ids of the locations the collection holds
StoredIds ==
    { points[i].originalId : i \in DOMAIN points } \cup DOMAIN named

StoredLocation(id) == CHOOSE loc \in LocationSet : loc.id = id

\* what a getLocationById call returned, against the collection it read
LookupRoundTrip ==
    (lookup' # None /\ lookup' # lookup) =>
        LET call == The(lookup')
        IN  /\ call.id \in StoredIds =>
                  call.location = Some(StoredLocation(call.id))
            /\ call.location = None => call.id \notin StoredIds

\* C26: for every location stored through addLocation or bulkAddLocations,
\* getLocationById(loc.id) returns that location, and it returns null only
\* for an id that was never stored.
C26_LookupRoundTrip == [][LookupRoundTrip]_vars

\* C28: at most one chat request is in flight at any time on ChatPage: a
\* handleSend with blank text, or while an earlier send has not completed,
\* sends no request, also when it is invoked before the component has
\* re-rendered with isLoading true.
C28_OneRequestInFlight == Cardinality(fetches) <= 1

LastMessage == messages[Len(messages)]

\* what a step of ChatPage does to the messages
MessagesGrow ==
    /\ Len(messages') >= Len(messages)
    /\ SubSeq(messages', 1, Len(messages)) = messages
    /\ sends' # sends =>
          /\ Len(messages') = Len(messages) + 1
          /\ LastMessage'.role = "user"
    /\ fetches' # fetches /\ fetches' \subseteq fetches =>
          /\ Len(messages') = Len(messages) + 1
          /\ LastMessage'.role = "assistant"
          /\ LastMessage'.content \in { StringValue(<<"r">>), Apology }

LoadingWhileInFlight == isLoading <=> fetches # {}

\* C29: every accepted handleSend appends one user message and then one
\* assistant message, the reply on success and the fixed apology on an
\* error envelope, a non-JSON response or a network failure; earlier
\* messages are never removed or reordered; isLoading is true from
\* acceptance until the request settles and is eventually false again.
C29_OneReplyPerSend ==
    /\ [][MessagesGrow]_vars
    /\ []LoadingWhileInFlight
    /\ (isLoading ~> ~isLoading)

\* C30: once all outstanding searches of SearchPage have settled, results
\* and searchTime are those of the query issued last, whatever the order
\* in which the responses arrived; a failed search leaves results empty;
\* and isLoading is false only when no search is in flight.
C30_LatestQueryShown ==
    /\ (searches = {} /\ answered # None) =>
          LET answer == The(answered)
          IN  /\ answer.success =>
                    /\ pageResults = answer.results
                    /\ searchTime = Some(answer.queryTimeMs)
              /\ ~answer.success => pageResults = <<>>
    /\ ~pageIsLoading => searches = {}

====
